---------------------------- MODULE Spec2Model ----------------------------
(***************************************************************************)
(* Model of vizseq/_view/data_view.py: VizSeqDataPageView.get, the         *)
(* request-to-page compiler of the VizSeq viewer, with its two helpers     *)
(* _get_start_end_idx and _select.                                         *)
(*                                                                         *)
(* Python lists are TLA+ sequences.  Python indices are 0-based, so the    *)
(* item at Python index i of a list a is a[i + 1] here; every index kept   *)
(* in the state (cur_idx, start_idx, end_idx) is the Python value.         *)
(* A text is a sequence of characters, a character a small number.         *)
(***************************************************************************)
EXTENDS Integers, Sequences, FiniteSets

VARIABLES
    src,                \* source data source: [n, has_text, data]
    ref,                \* reference data source: [has_text, text]
    hypo,               \* model outputs: [text_names, text]
    tags,               \* optional per-example tag list
    page_sz, metrics, query, sorting, sorting_metric,
    need_lang_tags, disable_alignment, is_tag_selected, filter_by_tags,
    page_no,            \* the page the caller asks for next
    phase,              \* "call": get is about to run; "done": it has run
    res,                \* outcome of the last call of get
    pages               \* concatenation of the cur_idx of the calls so far

corpus  == <<src, ref, hypo, tags>>
request == <<page_sz, metrics, query, sorting, sorting_metric,
             need_lang_tags, disable_alignment, is_tag_selected,
             filter_by_tags>>
vars    == <<corpus, request, page_no, phase, res, pages>>

---------------------------------------------------------------------------
(* Bounds of the model. *)

\* largest corpus (number of examples)
MaxN == 3
\* largest page number a caller asks for
MaxPageNo == 3

(* Program constants. *)
DEFAULT_PAGE_SIZE == 10
DEFAULT_PAGE_NO == 1
MAX_PAGE_SZ == 100

---------------------------------------------------------------------------
(* Sequences and Python list primitives. *)

Min(a, b) == IF a < b THEN a ELSE b
Max(a, b) == IF a > b THEN a ELSE b

Range(s) == {s[k] : k \in DOMAIN s}

\* the element of a one-element set.  The({e(x) : x \in {v}}) is e(v) with
\* v computed once.
The(S) == CHOOSE v \in S : TRUE

\* list(range(n))
PyRange(n) == [k \in 1..n |-> k - 1]

\* [s[k] for k in range(len(s)) if keep[k]]: the elements of s whose flag
\* in the parallel sequence keep is set, in order
RECURSIVE Compress(_, _)
Compress(s, keep) ==
    IF Len(s) = 0 THEN <<>>
    ELSE IF Len(s) = 1 THEN (IF keep[1] THEN s ELSE <<>>)
    ELSE The({Compress(lo[1], lo[2]) \o Compress(hi[1], hi[2]) :
                lo \in {<<SubSeq(s, 1, Len(s) \div 2),
                          SubSeq(keep, 1, Len(s) \div 2)>>},
                hi \in {<<SubSeq(s, Len(s) \div 2 + 1, Len(s)),
                          SubSeq(keep, Len(s) \div 2 + 1, Len(s))>>}})

\* a_list[lo:hi] for 0-based lo, hi; a negative bound counts from the end,
\* and both bounds are clamped to the list
PySlice(s, lo, hi) ==
    LET n  == Len(s)
        l0 == IF lo < 0 THEN Max(lo + n, 0) ELSE Min(lo, n)
        h0 == IF hi < 0 THEN Max(hi + n, 0) ELSE Min(hi, n)
    IN  SubSeq(s, l0 + 1, h0)

\* all orderings of the elements of a duplicate-free sequence s
Permutations(s) ==
    {[k \in DOMAIN s |-> s[f[k]]] :
        f \in {g \in [DOMAIN s -> DOMAIN s] : \A a, b \in DOMAIN s :
                                                a # b => g[a] # g[b]}}

\* the positions of keys in ascending order of key, positions of equal keys
\* in their original order (a stable argsort)
ArgSort(keys) ==
    The({[k \in DOMAIN ks |->
            CHOOSE p \in DOMAIN ks :
                Cardinality({q \in DOMAIN ks :
                    ks[q] < ks[p] \/ (ks[q] = ks[p] /\ q < p)}) = k - 1] :
         ks \in {keys}})

\* lexicographic order of two texts
RECURSIVE LexLess(_, _)
LexLess(a, b) ==
    IF b = <<>> THEN FALSE
    ELSE IF a = <<>> THEN TRUE
    ELSE IF Head(a) # Head(b) THEN Head(a) < Head(b)
    ELSE LexLess(Tail(a), Tail(b))

\* str.find(q) > -1
Contains(t, q) ==
    \E k \in 0..(Len(t) - Len(q)) : SubSeq(t, k + 1, k + Len(q)) = q

---------------------------------------------------------------------------
(* The data sources.  src.data holds one item per example: its text when   *)
(* the source is textual, a media handle otherwise.  ref.text and          *)
(* hypo.text are lists of text channels, each a list of texts.             *)

\* len(src)
SrcLen == Len(src.data)
\* src.text: the text channels of the source
SrcText == IF src.has_text THEN <<src.data>> ELSE <<>>
\* src.main_text
SrcMainText == src.data
\* src.cached(indices): one structure per index, holding the example's
\* item in every source channel
SrcCached(indices) == [k \in DOMAIN indices |-> <<src.data[indices[k] + 1]>>]
\* ref.has_text
RefHasText == Len(ref.text) > 0
\* ref.main_text
RefMainText == ref.text[1]
\* models = hypo.text_names
models == hypo.text_names
\* the names zip(models, hypo.text) pairs with a channel
ZipModels == SubSeq(models, 1, Min(Len(models), Len(hypo.text)))
\* the channel zip(models, hypo.text) pairs with the name m
ChannelOf(m) == hypo.text[CHOOSE k \in DOMAIN ZipModels : ZipModels[k] = m]

---------------------------------------------------------------------------
(* Collaborators of get whose code is outside data_view.py.                *)

\* VizSeqSortingType: the value of each sorting type
VizSeqSortingType ==
    [original |-> 0, random |-> 1, ref_len |-> 2, ref_alphabetical |-> 3,
     src_len |-> 4, src_alphabetical |-> 5, metric |-> 6, metric_diff |-> 7]

SortingValues == {VizSeqSortingType[f] : f \in DOMAIN VizSeqSortingType}

\* get_scorer_ids(): the registered scorer ids
get_scorer_ids == {"bleu"}

\* VizSeqFilter.filter(data, query): the indices whose text, in some
\* channel, contains the query; the empty query matches everything
VizSeqFilter(data, q) ==
    LET n    == Len(data[1])
        keep == [k \in 1..n |->
                    q = <<>> \/ \E c \in DOMAIN data : Contains(data[c][k], q)]
    IN  Compress(PyRange(n), keep)

\* a sorter can read data[i] for every index it is given
Readable(data, indices) == \A k \in DOMAIN indices : indices[k] < Len(data)

\* number of texts of data that order strictly before t
LexRank(data, t) == Cardinality({j \in DOMAIN data : LexLess(data[j], t)})

\* VizSeqByLenSorter.sort(data, indices): ascending length, stable
VizSeqByLenSorter(data, indices) ==
    LET order == ArgSort([k \in DOMAIN indices |-> Len(data[indices[k] + 1])])
    IN  [k \in DOMAIN indices |-> indices[order[k]]]

\* VizSeqByStrOrderSorter.sort(data, indices): ascending string order, stable
VizSeqByStrOrderSorter(data, indices) ==
    LET order == ArgSort([k \in DOMAIN indices |->
                             LexRank(data, data[indices[k] + 1])])
    IN  [k \in DOMAIN indices |-> indices[order[k]]]

\* sum, largest and smallest value of a dict of scores (0 for the empty dict)
RECURSIVE SumOver(_, _)
SumOver(d, keys) ==
    IF keys = {} THEN 0
    ELSE LET m == CHOOSE x \in keys : TRUE IN d[m] + SumOver(d, keys \ {m})
MaxOver(d) ==
    IF DOMAIN d = {} THEN 0
    ELSE d[CHOOSE m \in DOMAIN d : \A o \in DOMAIN d : d[o] <= d[m]]
MinOver(d) ==
    IF DOMAIN d = {} THEN 0
    ELSE d[CHOOSE m \in DOMAIN d : \A o \in DOMAIN d : d[o] >= d[m]]

\* VizSeqByMetricSorter.sort(scores, indices): ascending total score, stable
VizSeqByMetricSorter(scores, indices) ==
    LET order == ArgSort([k \in DOMAIN indices |->
                             SumOver(scores[k], DOMAIN scores[k])])
    IN  [k \in DOMAIN indices |-> indices[order[k]]]

\* VizSeqByMetricDiffSorter.sort(scores, indices): descending spread of the
\* models' scores, stable
VizSeqByMetricDiffSorter(scores, indices) ==
    LET order == ArgSort([k \in DOMAIN indices |->
                             0 - (MaxOver(scores[k]) - MinOver(scores[k]))])
    IN  [k \in DOMAIN indices |-> indices[order[k]]]

\* one sentence-level score, in thousandths: the share of the reference's
\* positions at which the hypothesis has the same character
SentScore(h, r) ==
    (1000 * Cardinality({k \in 1..Min(Len(h), Len(r)) : h[k] = r[k]}))
        \div Max(Len(r), 1)

\* get_scorer(id)(corpus_level=False, sent_level=True).score(hyp, refs)
\* .sent_scores: one score per hypothesis that has a reference in every
\* channel, against the first channel
SentScores(hyp, refs) ==
    LET n == IF refs = <<>> THEN 0
             ELSE Min(Len(hyp),
                      Len(refs[CHOOSE c \in DOMAIN refs :
                              \A o \in DOMAIN refs : Len(refs[c]) <= Len(refs[o])]))
    IN  [k \in 1..n |-> SentScore(hyp[k], refs[1][k])]

\* np.round(x, decimals=2) of a value in thousandths: to the nearest
\* hundredth, a half to the even one
Round2(x) ==
    LET q == x \div 10
        r == x % 10
    IN  IF r > 5 \/ (r = 5 /\ q % 2 = 1) THEN (q + 1) * 10 ELSE q * 10

\* the visualizers: one display structure per raw structure
Visualize(items) == [k \in DOMAIN items |-> [viz |-> items[k]]]

\* VizSeqLanguageTagger.tag_lang(text)
tag_lang(text) == IF text = <<>> THEN "und" ELSE "lang"

---------------------------------------------------------------------------
(* data_view.py *)

\* _get_start_end_idx with end_idx taken as exclusive
get_start_end_idx_end_exclusive(n_items, psz, pno) ==
    LET start_idx == Min(psz * (pno - 1), n_items - 1)
    IN  <<start_idx, Max(psz * pno, start_idx)>>

\* _get_start_end_idx without the saturation of start_idx
get_start_end_idx_unsaturated(n_items, psz, pno) ==
    LET start_idx == psz * (pno - 1)
    IN  <<start_idx, Max(psz * pno - 1, start_idx)>>

\* _get_start_end_idx with start_idx saturating at n_items
get_start_end_idx_start_at_n(n_items, psz, pno) ==
    LET start_idx == Min(psz * (pno - 1), n_items)
    IN  <<start_idx, Max(psz * pno - 1, start_idx)>>

\* _get_start_end_idx(n_items, page_sz, page_no): <<start_idx, end_idx>>,
\* inclusive on both sides
get_start_end_idx(n_items, psz, pno) ==
    LET start_idx == Min(psz * (pno - 1), n_items - 1)
        end_idx   == Max(psz * pno - 1, start_idx)
    IN  <<start_idx, end_idx>>

\* _select(a_list, indices)
select(a_list, indices) ==
    LET kept == Compress(indices,
                         [k \in DOMAIN indices |-> indices[k] < Len(a_list)])
    IN  [k \in DOMAIN kept |-> a_list[kept[k] + 1]]

\* get, "# query": the candidates the query leaves
QueryStage ==
    IF src.has_text THEN VizSeqFilter(SrcText, query)
    ELSE IF RefHasText THEN VizSeqFilter(ref.text, query)
    ELSE PyRange(SrcLen)

\* "# filter by tags" with the mask read at the corpus index
TagStage_by_corpus_index(cur_idx) ==
    IF filter_by_tags
    THEN Compress(cur_idx,
                  [k \in DOMAIN cur_idx |->
                      /\ cur_idx[k] < Len(is_tag_selected)
                      /\ is_tag_selected[cur_idx[k] + 1]])
    ELSE cur_idx

\* get, "# filter by tags"
TagStage(cur_idx) ==
    IF filter_by_tags
    THEN LET n == Min(Len(cur_idx), Len(is_tag_selected))
         IN  Compress(SubSeq(cur_idx, 1, n), SubSeq(is_tag_selected, 1, n))
    ELSE cur_idx

\* get, "# sorting", the metric and metric_diff branch: the sentence scores
\* of every model over all candidates, then the sorter
MetricSortStage(cur_idx) ==
    LET cur_ref == [c \in DOMAIN ref.text |-> select(ref.text[c], cur_idx)]
        scored  == ZipModels # <<>>
        failed  == [err |-> "IndexError", idx |-> cur_idx,
                    sorter |-> FALSE, scored |-> scored]
        rows(scores) == [i \in DOMAIN cur_idx |->
                            [m \in Range(models) |-> scores[m][i]]]
        sorted(rs) == IF sorting = VizSeqSortingType.metric
                      THEN VizSeqByMetricSorter(rs, cur_idx)
                      ELSE VizSeqByMetricDiffSorter(rs, cur_idx)
    IN  The({IF \E m \in Range(models) : Len(scores[m]) < Len(cur_idx)
             THEN failed
             ELSE The({[err |-> "none", idx |-> sorted(rs),
                        sorter |-> TRUE, scored |-> scored] :
                       rs \in {rows(scores)}}) :
             scores \in {[m \in Range(ZipModels) |->
                            SentScores(select(ChannelOf(m), cur_idx),
                                       cur_ref)]}})

\* what "# sorting" leaves: the candidates idx, whether a sorter ran and
\* whether a scorer ran for it
Unsorted(cur_idx) ==
    [err |-> "none", idx |-> cur_idx, sorter |-> FALSE, scored |-> FALSE]
SortedBy(sorted) ==
    [err |-> "none", idx |-> sorted, sorter |-> TRUE, scored |-> FALSE]

\* the ref_len and ref_alphabetical branches, sorting every index of
\* ref.main_text instead of cur_idx
RefSortStage_all_indices(cur_idx) ==
    IF sorting = VizSeqSortingType.ref_len
    THEN SortedBy(VizSeqByLenSorter(RefMainText, PyRange(Len(RefMainText))))
    ELSE SortedBy(VizSeqByStrOrderSorter(RefMainText,
                                         PyRange(Len(RefMainText))))

\* get, "# sorting", the ref_len and ref_alphabetical branches
RefSortStage(cur_idx) ==
    IF ~RefHasText \/ ~Readable(RefMainText, cur_idx)
    THEN [Unsorted(cur_idx) EXCEPT !.err = "IndexError"]
    ELSE IF sorting = VizSeqSortingType.ref_len
         THEN SortedBy(VizSeqByLenSorter(RefMainText, cur_idx))
         ELSE SortedBy(VizSeqByStrOrderSorter(RefMainText, cur_idx))

\* get, "# sorting", the src_len and src_alphabetical branches
SrcSortStage(cur_idx) ==
    IF ~src.has_text THEN Unsorted(cur_idx)
    ELSE IF sorting = VizSeqSortingType.src_len
         THEN SortedBy(VizSeqByLenSorter(SrcMainText, cur_idx))
         ELSE SortedBy(VizSeqByStrOrderSorter(SrcMainText, cur_idx))

\* the metric and metric_diff branches without the check of sorting_metric
MetricBranch_unguarded(cur_idx) == MetricSortStage(cur_idx)

\* get, "# sorting", the metric and metric_diff branches
MetricBranch(cur_idx) ==
    IF sorting_metric \in get_scorer_ids THEN MetricSortStage(cur_idx)
    ELSE Unsorted(cur_idx)

\* get, "# sorting", after the selector is resolved.  rnd is the order the
\* random sorter draws.
SortStage(cur_idx, rnd) ==
    LET T == VizSeqSortingType
    IN  IF sorting = T.random THEN SortedBy(rnd)
        ELSE IF sorting \in {T.ref_len, T.ref_alphabetical}
        THEN RefSortStage(cur_idx)
        ELSE IF sorting \in {T.src_len, T.src_alphabetical}
        THEN SrcSortStage(cur_idx)
        ELSE IF sorting \in {T.metric, T.metric_diff}
        THEN MetricBranch(cur_idx)
        ELSE Unsorted(cur_idx)

\* "# pagination" without page_sz = min(page_sz, MAX_PAGE_SZ)
Paginate_unclamped(cur_idx) ==
    LET se == get_start_end_idx(Len(cur_idx), page_sz, page_no)
    IN  <<se[1], se[2], PySlice(cur_idx, se[1], se[2] + 1)>>

\* get, "# pagination": <<start_idx, end_idx, the page of cur_idx>>
Paginate(cur_idx) ==
    LET se == get_start_end_idx(Len(cur_idx), Min(page_sz, MAX_PAGE_SZ),
                                page_no)
    IN  <<se[1], se[2], PySlice(cur_idx, se[1], se[2] + 1)>>

\* get, "# page data": cur_ref
CurRef(cur_idx) == [c \in DOMAIN ref.text |-> select(ref.text[c], cur_idx)]

\* get, "# page data": cur_hypo
CurHypo(cur_idx) ==
    [m \in Range(ZipModels) |-> select(ChannelOf(m), cur_idx)]

\* get, "# sent scores": the rounded sentence scores of every metric and
\* model on the page
CurSentScores(cur_hypo, cur_ref) ==
    [s \in Range(metrics) |->
        [m \in DOMAIN cur_hypo |->
            LET raw == SentScores(cur_hypo[m], cur_ref)
            IN  [k \in DOMAIN raw |-> Round2(raw[k])]]]

\* get, "# sent scores": resolving the scorers fails
ScorerResolutionFails(cur_hypo) ==
    /\ DOMAIN cur_hypo # {}
    /\ \E k \in DOMAIN metrics : metrics[k] \notin get_scorer_ids

\* the locals of get before its first statement.  An optional value is a
\* sequence: <<>> for None, <<v>> for the value v.
Blank ==
    [err |-> "none", at |-> "return", calls |-> {}, sort_scored |-> FALSE,
     q_idx |-> <<>>, f_idx |-> <<>>, n_samples |-> 0, s_idx |-> <<>>,
     start_idx |-> 0, end_idx |-> 0, cur_idx |-> <<>>, n_cur_samples |-> 0,
     cur_src |-> <<>>, cur_src_text |-> <<>>, cur_ref |-> <<>>,
     cur_hypo |-> <<>>, cur_sent_scores |-> <<>>, viz_src |-> <<>>,
     viz_ref |-> <<>>, viz_hypo |-> <<>>, viz_sent_scores |-> <<>>,
     trg_lang |-> <<>>, cur_tags |-> <<>>, total_examples |-> 0]

\* get raises err at the statement named at, with the locals r
Raise(r, err, at) == [r EXCEPT !.err = err, !.at = at]

(* The statements of get in order.  Each takes the locals r left by the    *)
(* statements before it and gives the locals after it; once get has        *)
(* raised, nothing more is executed.                                       *)

\* get without its first assertion
AssertPage_missing == Blank

\* assert page_no > 0 and page_sz > 0
AssertPage ==
    IF page_no > 0 /\ page_sz > 0 THEN Blank
    ELSE Raise(Blank, "AssertionError", "assert_page")

\* "# query", "# filter by tags", n_samples
Candidates(r) ==
    IF r.err # "none" THEN r
    ELSE The({The({[r EXCEPT !.q_idx = q, !.f_idx = f, !.n_samples = Len(f),
                             !.calls = IF src.has_text \/ RefHasText
                                       THEN {"filter"} ELSE {}] :
                   f \in {TagStage(q)}}) :
              q \in {QueryStage}})

\* sorting = {e.value: e ...}.get(sorting, None); assert sorting is not None
AssertSorting(r) ==
    IF r.err # "none" THEN r
    ELSE IF sorting \in SortingValues THEN r
    ELSE Raise(r, "AssertionError", "assert_sorting")

\* "# sorting"
Sorting(r, rnd) ==
    IF r.err # "none" THEN r
    ELSE The({IF st.err # "none"
              THEN Raise([r EXCEPT !.sort_scored = st.scored,
                                   !.calls = @ \cup (IF st.scored
                                                     THEN {"scorer"} ELSE {})],
                         st.err, "sorting")
              ELSE [r EXCEPT !.s_idx = st.idx, !.sort_scored = st.scored,
                             !.calls = @ \cup
                                 (IF st.sorter THEN {"sorter"} ELSE {})
                                 \cup (IF st.scored THEN {"scorer"} ELSE {})] :
              st \in {SortStage(r.f_idx, rnd)}})

\* "# pagination"; _get_start_end_idx asserts page_sz > 0 and page_no > 0
Pagination(r) ==
    IF r.err # "none" THEN r
    ELSE IF ~(Min(page_sz, MAX_PAGE_SZ) > 0 /\ page_no > 0)
    THEN Raise(r, "AssertionError", "get_start_end_idx")
    ELSE The({[r EXCEPT !.start_idx = pg[1], !.end_idx = pg[2],
                        !.cur_idx = pg[3], !.n_cur_samples = Len(pg[3])] :
              pg \in {Paginate(r.s_idx)}})

\* "# page data"
PageData(r) ==
    IF r.err # "none" THEN r
    ELSE [r EXCEPT !.cur_src = SrcCached(r.cur_idx),
                   !.cur_src_text =
                       IF src.has_text
                       THEN <<select(SrcMainText, r.cur_idx)>> ELSE <<>>,
                   !.cur_ref = CurRef(r.cur_idx),
                   !.cur_hypo = CurHypo(r.cur_idx)]

\* "# sent scores"
SentScoring(r) ==
    IF r.err # "none" THEN r
    ELSE IF ScorerResolutionFails(r.cur_hypo)
    THEN Raise(r, "ScorerResolutionError", "sent_scores")
    ELSE [r EXCEPT !.cur_sent_scores = CurSentScores(r.cur_hypo, r.cur_ref),
                   !.calls = @ \cup (IF metrics # <<>> /\ DOMAIN r.cur_hypo # {}
                                     THEN {"scorer"} ELSE {})]

\* "# rendering": viz_src, viz_ref, viz_hypo
Rendering(r) ==
    IF r.err # "none" THEN r
    ELSE IF disable_alignment
    THEN [r EXCEPT !.viz_src = r.cur_src, !.viz_ref = r.cur_ref,
                   !.viz_hypo = r.cur_hypo]
    ELSE LET r1 == [r EXCEPT
                      !.viz_src = Visualize(r.cur_src),
                      !.viz_ref =
                          IF r.cur_src_text # <<>>
                          THEN [c \in DOMAIN r.cur_ref |->
                                   Visualize(r.cur_ref[c])]
                          ELSE r.cur_ref,
                      !.calls = @ \cup {"visualizer"}]
         IN  IF Len(r.cur_ref) = 0
             THEN Raise(r1, "IndexError", "viz_hypo")
             ELSE [r1 EXCEPT !.viz_hypo = [m \in DOMAIN r.cur_hypo |->
                                              Visualize(r.cur_hypo[m])]]

\* "# rendering": viz_sent_scores
VizSentScores(r) ==
    IF r.err # "none" THEN r
    ELSE IF \E s \in Range(metrics) : \E m \in Range(models) :
                Len(r.cur_sent_scores[s][m]) < r.n_cur_samples
    THEN Raise(r, "IndexError", "viz_sent_scores")
    ELSE [r EXCEPT
            !.viz_sent_scores =
                [i \in 1..r.n_cur_samples |->
                    [s \in Range(metrics) |->
                        [m \in Range(models) |-> r.cur_sent_scores[s][m][i]]]],
            !.calls = @ \cup (IF metrics # <<>> /\ r.n_cur_samples > 0
                              THEN {"visualizer"} ELSE {})]

\* trg_lang, cur_tags and the return statement
Return(r) ==
    IF r.err # "none" THEN r
    ELSE IF need_lang_tags /\ Len(r.cur_ref) = 0
    THEN Raise(r, "IndexError", "trg_lang")
    ELSE [r EXCEPT
            !.trg_lang = IF need_lang_tags
                         THEN <<[k \in DOMAIN r.cur_ref[1] |->
                                    tag_lang(r.cur_ref[1][k])]>>
                         ELSE <<>>,
            !.calls = @ \cup (IF need_lang_tags /\ r.cur_ref[1] # <<>>
                              THEN {"tagger"} ELSE {}),
            !.cur_tags = IF tags # <<>> THEN select(tags, r.cur_idx)
                         ELSE <<>>,
            !.total_examples = SrcLen]

\* VizSeqDataPageView.get: the locals of the call when it returns
\* (err = "none") or raises (err names the error, at the statement).
\* rnd is the order the random sorter draws.
get(rnd) ==
    The({Return(r8) : r8 \in
        {VizSentScores(r7) : r7 \in
        {Rendering(r6) : r6 \in
        {SentScoring(r5) : r5 \in
        {PageData(r4) : r4 \in
        {Pagination(r3) : r3 \in
        {Sorting(r2, rnd) : r2 \in
        {AssertSorting(r1) : r1 \in
        {Candidates(r0) : r0 \in {AssertPage}}}}}}}}}})

---------------------------------------------------------------------------
(* The inputs: corpora and requests.  A corpus is a list of examples, each *)
(* one of a few kinds that differ in every sorting key.                    *)

ExampleKinds ==
    {[src |-> <<1>>,    ref |-> <<1, 2>>,    tag |-> "news",
      hyp |-> <<<<1, 2>>, <<2>>>>],
     [src |-> <<2, 1>>, ref |-> <<2>>,       tag |-> "chat",
      hyp |-> <<<<1>>, <<2>>>>],
     [src |-> <<1, 2>>, ref |-> <<1, 1, 2>>, tag |-> "news",
      hyp |-> <<<<1, 1, 2>>, <<1, 2, 2>>>>]}

ModelNames == <<"sysA", "sysB">>

Corpora == UNION {[1..n -> ExampleKinds] : n \in 0..MaxN}

\* corpora of one kind of example
PlainCorpora ==
    {[k \in 1..n |-> CHOOSE e \in ExampleKinds : e.tag = "chat"] :
        n \in 0..MaxN}

Queries == {<<>>, <<2>>, <<2, 1>>}

\* page sizes below, at and above MAX_PAGE_SZ
PageSizes == {1, 2, MAX_PAGE_SZ + 1}

MetricLists == {<<>>, <<"bleu">>, <<"nope">>, <<"bleu", "nope">>}

Masks == UNION {[1..n -> BOOLEAN] : n \in 0..MaxN}

\* the first entries of a list, without its last cut ones
Cut(list, cut) == SubSeq(list, 1, Len(list) - Min(cut, Len(list)))

\* a scenario with the default request over a well-formed corpus: every
\* list has one entry per example
Plain ==
    [ex |-> <<>>, src_has_text |-> TRUE, n_models |-> Len(ModelNames),
     has_tags |-> FALSE, ref_channels |-> 1, cut_ref |-> 0,
     cut_hypo |-> 0, cut_tags |-> 0,
     page_sz |-> 2, page_no |-> DEFAULT_PAGE_NO, metrics |-> <<>>,
     query |-> <<>>, sorting |-> VizSeqSortingType.original,
     sorting_metric |-> "", need_lang_tags |-> FALSE,
     disable_alignment |-> FALSE, is_tag_selected |-> <<>>,
     filter_by_tags |-> FALSE]

\* the state in which a caller is about to make the first call of scenario sc
Setup(sc) ==
    /\ src = [has_text |-> sc.src_has_text,
              data |-> [k \in DOMAIN sc.ex |->
                           IF sc.src_has_text THEN sc.ex[k].src ELSE <<0>>]]
    /\ ref = [text |-> [c \in 1..sc.ref_channels |->
                           Cut([k \in DOMAIN sc.ex |-> sc.ex[k].ref],
                               sc.cut_ref)]]
    /\ hypo = [text_names |-> SubSeq(ModelNames, 1, sc.n_models),
               text |-> [m \in 1..sc.n_models |->
                            Cut([k \in DOMAIN sc.ex |-> sc.ex[k].hyp[m]],
                                IF m = 1 THEN sc.cut_hypo ELSE 0)]]
    /\ tags = IF sc.has_tags
              THEN Cut([k \in DOMAIN sc.ex |-> sc.ex[k].tag], sc.cut_tags)
              ELSE <<>>
    /\ page_sz = sc.page_sz
    /\ metrics = sc.metrics
    /\ query = sc.query
    /\ sorting = sc.sorting
    /\ sorting_metric = sc.sorting_metric
    /\ need_lang_tags = sc.need_lang_tags
    /\ disable_alignment = sc.disable_alignment
    /\ is_tag_selected = sc.is_tag_selected
    /\ filter_by_tags = sc.filter_by_tags
    /\ page_no = sc.page_no
    /\ phase = "call"
    /\ res = Blank
    /\ pages = <<>>

\* paging under every deterministic ordering, query and page size
PagingScenarios ==
    \E ex \in Corpora, st \in BOOLEAN, ps \in PageSizes, q \in Queries,
       so \in ((SortingValues \ {VizSeqSortingType.random}) \X {"bleu"})
              \cup ({VizSeqSortingType.metric,
                     VizSeqSortingType.metric_diff} \X {"nope"}) :
        Setup([Plain EXCEPT !.ex = ex, !.src_has_text = st, !.page_sz = ps,
                            !.query = q, !.sorting = so[1],
                            !.sorting_metric = so[2]])

\* a corpus of more than two full pages of MAX_PAGE_SZ
LargeScenarios ==
    \E ps \in {DEFAULT_PAGE_SIZE, MAX_PAGE_SZ, MAX_PAGE_SZ + 1} :
        Setup([Plain EXCEPT
                 !.ex = [k \in 1..(2 * MAX_PAGE_SZ + 1) |->
                            CHOOSE e \in ExampleKinds : e.tag = "chat"],
                 !.page_sz = ps])

\* the random ordering
RandomScenarios ==
    \E ex \in PlainCorpora, ps \in {2, DEFAULT_PAGE_SIZE} :
        Setup([Plain EXCEPT !.ex = ex, !.page_sz = ps,
                            !.sorting = VizSeqSortingType.random])

\* the tag filter under every mask
TagScenarios ==
    \E ex \in Corpora, st \in BOOLEAN, q \in Queries, mask \in Masks :
        Setup([Plain EXCEPT !.ex = ex, !.src_has_text = st, !.query = q,
                            !.has_tags = TRUE, !.filter_by_tags = TRUE,
                            !.is_tag_selected = mask])

\* page-local scoring and rendering for every set of models and metrics
ScoringScenarios ==
    \E ex \in Corpora, nm \in 0..Len(ModelNames), ms \in MetricLists,
       fl \in BOOLEAN,
       so \in {<<VizSeqSortingType.original, "">>}
              \cup ({VizSeqSortingType.metric,
                     VizSeqSortingType.metric_diff} \X {"bleu", "nope"}) :
        Setup([Plain EXCEPT !.ex = ex, !.n_models = nm, !.metrics = ms,
                            !.has_tags = fl, !.need_lang_tags = fl,
                            !.disable_alignment = fl, !.sorting = so[1],
                            !.sorting_metric = so[2]])

\* calls that break a precondition of get: a page size or page number
\* that is not positive, a selector that is no sorting type
BadCallScenarios ==
    \E ex \in PlainCorpora, ps \in {-1, 0, 2}, pn \in {-1, DEFAULT_PAGE_NO},
       so \in {-1, 8, VizSeqSortingType.original, VizSeqSortingType.random,
               VizSeqSortingType.src_len, VizSeqSortingType.metric},
       ms \in {<<>>, <<"bleu">>} :
        Setup([Plain EXCEPT !.ex = ex, !.page_sz = ps, !.page_no = pn,
                            !.sorting = so, !.sorting_metric = "bleu",
                            !.metrics = ms])

\* corpora whose parallel lists differ in length or are absent
RaggedScenarios ==
    \E ex \in Corpora, nm \in 1..Len(ModelNames), rc \in 0..1,
       cut \in (0..1) \X (0..1) \X (0..1),
       ms \in {<<>>, <<"bleu">>}, da \in BOOLEAN,
       so \in {VizSeqSortingType.original, VizSeqSortingType.ref_len,
               VizSeqSortingType.metric} :
        Setup([Plain EXCEPT !.ex = ex, !.n_models = nm, !.has_tags = TRUE,
                            !.ref_channels = rc, !.cut_ref = cut[1],
                            !.cut_hypo = cut[2], !.cut_tags = cut[3],
                            !.metrics = ms, !.disable_alignment = da,
                            !.sorting = so, !.sorting_metric = "bleu"])

---------------------------------------------------------------------------
(* The state machine: a caller pages through one request. *)

Init ==
    \/ PagingScenarios
    \/ LargeScenarios
    \/ RandomScenarios
    \/ TagScenarios
    \/ ScoringScenarios
    \/ BadCallScenarios

InitRagged == RaggedScenarios

\* the orders the random sorter can draw for this call
Draws ==
    IF page_no > 0 /\ page_sz > 0 /\ sorting = VizSeqSortingType.random
    THEN Permutations(TagStage(QueryStage))
    ELSE {<<>>}

\* the caller calls get for page_no and appends the page it returns
Get ==
    /\ phase = "call"
    /\ \E rnd \in Draws :
          /\ res' = get(rnd)
          /\ pages' = IF res'.err = "none" THEN pages \o res'.cur_idx
                      ELSE pages
    /\ phase' = "done"
    /\ UNCHANGED <<corpus, request, page_no>>

\* the caller asks for the next page
NextPage ==
    /\ phase = "done"
    /\ page_no < MaxPageNo
    /\ page_no' = page_no + 1
    /\ phase' = "call"
    /\ UNCHANGED <<corpus, request, res, pages>>

Next == Get \/ NextPage

Spec == Init /\ [][Next]_vars

SpecRagged == InitRagged /\ [][Next]_vars

---------------------------------------------------------------------------
(* Properties. *)

\* get has run for page_no
Done == phase = "done"

\* get has run for page_no and returned a page
Returned == Done /\ res.err = "none"

\* the statement named at was reached: get ran the statements before it
PastSorting ==
    Done /\ res.at \notin {"assert_page", "assert_sorting", "sorting"}
PastPagination == PastSorting /\ res.at # "get_start_end_idx"

\* the preconditions get asserts
ValidCall == page_sz > 0 /\ page_no > 0 /\ sorting \in SortingValues

\* every display metric is a registered scorer id
KnownMetrics == \A k \in DOMAIN metrics : metrics[k] \in get_scorer_ids

\* effective page size, and the number of the last page that holds any of
\* n candidates
EffPageSz == Min(page_sz, MAX_PAGE_SZ)
LastPageNo(n) == (n + EffPageSz - 1) \div EffPageSz

NoDuplicates(s) == \A a, b \in DOMAIN s : a # b => s[a] # s[b]

IsPermutation(s, t) ==
    /\ Len(s) = Len(t)
    /\ NoDuplicates(s)
    /\ Range(s) = Range(t)

\* C1: for a request with a deterministic ordering, the pages 1, 2, ...,
\* ceil(n_samples / min(page_sz, 100)) that get returns, concatenated in
\* that order, are the full ordered candidate list: nothing is missing and
\* nothing is repeated.
C1_PagesPartitionCandidates ==
    (Returned /\ sorting # VizSeqSortingType.random
              /\ page_no = LastPageNo(res.n_samples))
        => /\ pages = res.s_idx
           /\ NoDuplicates(pages)
           /\ Len(pages) = res.n_samples

\* C1 witness: three reordered candidates arrive on two pages
C1_Witness ==
    /\ Returned
    /\ sorting = VizSeqSortingType.ref_len
    /\ page_no = 2 /\ LastPageNo(res.n_samples) = 2
    /\ Len(pages) = 3
    /\ pages # res.f_idx

\* C3: a call with page_sz > 0 and page_no > 0 that returns gives
\* n_cur_samples = len(cur_idx), which is neither negative nor more than
\* min(page_sz, n_samples), n_samples being the number of candidates the
\* query and tag filters leave.
C3_PageCountBounded ==
    (Returned /\ page_sz > 0 /\ page_no > 0)
        => /\ res.n_cur_samples = Len(res.cur_idx)
           /\ res.n_cur_samples >= 0
           /\ res.n_cur_samples <= Min(page_sz, res.n_samples)
           /\ res.n_samples = Len(res.f_idx)

\* C3 witness: the second page of size 1 over the two candidates that the
\* query leaves of three examples
C3_Witness ==
    /\ Returned
    /\ query # <<>>
    /\ SrcLen = 3 /\ res.n_samples = 2
    /\ page_sz = 1 /\ page_no = 2 /\ res.n_cur_samples = 1

\* C4: a valid call for a page beyond the last one that holds a candidate
\* does not fail on that account: pagination raises nothing, cur_idx is the
\* single last candidate of the ordered list, or empty when there is no
\* candidate, and with pre-validated display metrics get returns the page.
C4_OutOfRangePageSaturates ==
    (Done /\ ValidCall /\ page_no > LastPageNo(res.n_samples))
        => /\ PastPagination
           /\ res.err \notin {"AssertionError", "IndexError"}
           /\ KnownMetrics => res.err = "none"
           /\ res.cur_idx = IF res.n_samples = 0 THEN <<>>
                            ELSE <<res.s_idx[Len(res.s_idx)]>>
           /\ res.n_cur_samples = Len(res.cur_idx)

\* C4 witness: page 3 of two pages returns the last of three reordered
\* candidates
C4_Witness ==
    /\ Returned
    /\ page_no = 3 /\ LastPageNo(res.n_samples) = 2
    /\ res.n_samples = 3
    /\ res.s_idx # res.f_idx
    /\ res.cur_idx = <<res.s_idx[3]>>

\* C10 as stated: for n > 0 candidates, 0 <= start_idx <= end_idx <= n - 1
C10_BothBoundsSaturate ==
    (PastPagination /\ Len(res.s_idx) > 0)
        => /\ 0 <= res.start_idx
           /\ res.start_idx <= res.end_idx
           /\ res.end_idx <= Len(res.s_idx) - 1

\* C10, amended: for n > 0 candidates only start_idx saturates,
\* 0 <= start_idx <= n - 1 and start_idx <= end_idx; end_idx is
\* max(page_sz * page_no - 1, start_idx), which exceeds n - 1 whenever the
\* page is not full, and the slice cur_idx[start_idx: end_idx + 1] stops at
\* the last candidate.
C10_StartSaturates ==
    (PastPagination /\ Len(res.s_idx) > 0)
        => /\ 0 <= res.start_idx
           /\ res.start_idx <= Len(res.s_idx) - 1
           /\ res.start_idx <= res.end_idx
           /\ res.end_idx = Max(EffPageSz * page_no - 1, res.start_idx)
           /\ res.end_idx > Len(res.s_idx) - 1
                  <=> EffPageSz * page_no > Len(res.s_idx)
           /\ res.cur_idx =
                  SubSeq(res.s_idx, res.start_idx + 1,
                         Min(res.end_idx, Len(res.s_idx) - 1) + 1)

\* C10 witness: the last, partial page has end_idx beyond the last candidate
C10_Witness ==
    /\ PastPagination
    /\ Len(res.s_idx) = 3 /\ EffPageSz = 2 /\ page_no = 2
    /\ res.start_idx = 2 /\ res.end_idx = 3

\* a sliced list holds, for every k, the item a_list stores at cur_idx[k]
SlicedFrom(sliced, a_list) ==
    /\ Len(sliced) = res.n_cur_samples
    /\ \A k \in DOMAIN res.cur_idx :
          /\ res.cur_idx[k] < Len(a_list)
          /\ sliced[k] = a_list[res.cur_idx[k] + 1]

\* the k-th score of metric s and model m is the score of example cur_idx[k]
ScoresFrom(s, m) ==
    /\ Len(res.cur_sent_scores[s][m]) = res.n_cur_samples
    /\ \A k \in DOMAIN res.cur_idx :
          /\ RefHasText
          /\ res.cur_idx[k] < Len(ChannelOf(m))
          /\ res.cur_idx[k] < Len(RefMainText)
          /\ res.cur_sent_scores[s][m][k] =
                 Round2(SentScore(ChannelOf(m)[res.cur_idx[k] + 1],
                                  RefMainText[res.cur_idx[k] + 1]))

\* C2: whatever the lengths of the reference channels, the hypothesis
\* channels and the tag list, every list that get slices has n_cur_samples
\* entries, the k-th being the item stored at index cur_idx[k], and the k-th
\* score of every metric and model is that of example cur_idx[k].
C2_IndexCorrespondence ==
    PastPagination
        => /\ \A c \in DOMAIN ref.text : SlicedFrom(res.cur_ref[c], ref.text[c])
           /\ \A m \in Range(ZipModels) :
                  SlicedFrom(res.cur_hypo[m], ChannelOf(m))
           /\ (Returned /\ tags # <<>>) => SlicedFrom(res.cur_tags, tags)
           /\ res.at # "sent_scores"
                  => \A s \in Range(metrics) : \A m \in Range(ZipModels) :
                         ScoresFrom(s, m)

\* C5: under every sorting selector the candidates after "# sorting" are a
\* permutation of the candidates after filtering, so cur_idx holds no
\* duplicate and no index a filter removed, and n_samples is what the
\* filters alone give.
C5_SortingOnlyReorders ==
    PastSorting
        => /\ IsPermutation(res.s_idx, res.f_idx)
           /\ NoDuplicates(res.cur_idx)
           /\ Range(res.cur_idx) \subseteq Range(res.f_idx)
           /\ Range(res.f_idx) \subseteq Range(res.q_idx)
           /\ res.n_samples = Len(TagStage(QueryStage))

\* C5 witness: the query removes an example and the sorter reorders the rest
C5_Witness ==
    /\ Returned
    /\ sorting = VizSeqSortingType.ref_alphabetical
    /\ query # <<>>
    /\ Len(res.f_idx) = 2 /\ SrcLen = 3
    /\ res.s_idx # res.f_idx
    /\ res.cur_idx = res.s_idx

\* C6 as stated: a valid call whose metrics hold an unknown id fails with
\* the scorer-resolution error, for every set of models
C6_UnknownMetricAlwaysFails ==
    (Done /\ ValidCall /\ ~KnownMetrics)
        => res.err = "ScorerResolutionError"

\* C7: with sorting selector metric or metric_diff and a sorting_metric that
\* is no registered scorer id, a valid call does not fail in sorting, runs
\* no sorter and no scorer for sorting, keeps the filtered order, and
\* pages it as selector original does; with pre-validated display metrics
\* get returns the page.
C7_UnknownSortingMetricIsNoOp ==
    (Done /\ ValidCall
          /\ sorting \in {VizSeqSortingType.metric,
                          VizSeqSortingType.metric_diff}
          /\ sorting_metric \notin get_scorer_ids)
        => /\ PastPagination
           /\ ~res.sort_scored
           /\ "sorter" \notin res.calls
           /\ res.s_idx = res.f_idx
           /\ res.cur_idx = Paginate(res.f_idx)[3]
           /\ KnownMetrics => res.err = "none"
           /\ metrics = <<>> => "scorer" \notin res.calls

\* C7 witness: three candidates that the registered metric would reorder
C7_Witness ==
    /\ Returned
    /\ sorting = VizSeqSortingType.metric
    /\ sorting_metric \notin get_scorer_ids
    /\ res.n_samples = 3
    /\ MetricSortStage(res.f_idx).idx # res.f_idx
    /\ res.s_idx = res.f_idx

\* C8: a call with page_sz <= 0, page_no <= 0 or a selector that is the
\* value of no sorting type ends in an assertion failure, returns no page,
\* and has run no sorter, scorer or renderer before it fails.
C8_PreconditionsFailFast ==
    (Done /\ ~ValidCall)
        => /\ res.err = "AssertionError"
           /\ res.at = IF page_no > 0 /\ page_sz > 0 THEN "assert_sorting"
                       ELSE "assert_page"
           /\ res.calls \cap {"sorter", "scorer", "visualizer", "tagger"} = {}
           /\ res.cur_idx = <<>> /\ res.n_cur_samples = 0
           /\ pages = <<>>

\* C8 witness: an unknown selector fails after the filter has run
C8_Witness ==
    /\ Done
    /\ page_sz > 0 /\ page_no > 0 /\ sorting \notin SortingValues
    /\ res.err = "AssertionError" /\ res.at = "assert_sorting"
    /\ res.calls = {"filter"}
    /\ res.n_samples > 0

\* C9: with filter_by_tags the candidates after the tag filter are the
\* entries of the query-filtered list at the positions k, counted in that
\* list, at which is_tag_selected[k] exists and is true, in unchanged
\* ascending order; n_samples counts them.
C9_TagFilterIsPositional ==
    (Done /\ res.at # "assert_page" /\ filter_by_tags)
        => LET q == res.q_idx
               f == res.f_idx
               P == {k \in DOMAIN q : /\ k <= Len(is_tag_selected)
                                      /\ is_tag_selected[k]}
           IN  /\ Len(f) = Cardinality(P)
               /\ \A j \in DOMAIN f :
                      \E k \in P : /\ Cardinality({i \in P : i < k}) = j - 1
                                   /\ f[j] = q[k]
               /\ \A i, j \in DOMAIN f : i < j => f[i] < f[j]
               /\ res.n_samples = Len(f)

\* C9 witness: the query leaves indices 1 and 2, the mask selects the
\* second position, and index 2 stays
C9_Witness ==
    /\ Done /\ filter_by_tags
    /\ res.q_idx = <<1, 2>>
    /\ is_tag_selected = <<FALSE, TRUE>>
    /\ res.f_idx = <<2>>
    /\ res.n_samples = 1

===========================================================================
